---- MODULE Spec2Model ----
(***************************************************************************)
(* Model of ficorea/PERSONAL-FINANCE, src/models.py: the start-up routine  *)
(* initialize_database (connectivity retry loop, get_db, collection and    *)
(* index reconciliation, seeding of the reference collections) run by one  *)
(* or two application instances against one MongoDB database.              *)
(*                                                                         *)
(* Each database call of the routine is one step of the instance that      *)
(* issues it, so that a call can fail and so that the calls of two         *)
(* instances interleave.  The database itself is modelled by the Mongo*    *)
(* operators: what the server does with a call the routine issues.         *)
(***************************************************************************)
EXTENDS Integers, Sequences, FiniteSets, TLC

(***************************************************************************)
(* Bounds of the model.                                                    *)
(***************************************************************************)
\* how many artefacts (live indexes, non-empty seed collections) the
\* database may hold that no run of this model has put there
MaxPre == 1

(***************************************************************************)
(* Program constants.                                                      *)
(***************************************************************************)
ASCENDING == 1
DESCENDING == -1
max_retries == 3
retry_delay == 1

\* the application instances (processes) that run initialize_database
Procs == {1, 2}

\* collection_schemas, in declaration order (dict insertion order)
Collections ==
    <<"users", "records", "cashflows", "inventory", "coin_transactions", "audit_logs">>

\* index options: the entries of an index dict other than 'key', as a set of
\* (option, value) pairs, so that dict equality is set equality
NoOpts == {}
Opt(name, value) == {<<name, value>>}

Idx(key, opts) == [key |-> key, opts |-> opts]

\* collection_schemas[c]['indexes']: ordered (field, direction) tuples and
\* the remaining entries of the dict (the options)
Indexes(c) ==
    CASE c = "users" ->
           << Idx(<< <<"email", ASCENDING>> >>, Opt("unique", "True")),
              Idx(<< <<"reset_token", ASCENDING>> >>, Opt("sparse", "True")),
              Idx(<< <<"role", ASCENDING>> >>, NoOpts) >>
      [] c = "records" ->
           << Idx(<< <<"user_id", ASCENDING>>, <<"type", ASCENDING>> >>, NoOpts),
              Idx(<< <<"created_at", DESCENDING>> >>, NoOpts) >>
      [] c = "cashflows" ->
           << Idx(<< <<"user_id", ASCENDING>>, <<"type", ASCENDING>> >>, NoOpts),
              Idx(<< <<"created_at", DESCENDING>> >>, NoOpts) >>
      [] c = "inventory" ->
           << Idx(<< <<"user_id", ASCENDING>> >>, NoOpts),
              Idx(<< <<"item_name", ASCENDING>> >>, NoOpts) >>
      [] c = "coin_transactions" ->
           << Idx(<< <<"user_id", ASCENDING>> >>, NoOpts),
              Idx(<< <<"date", DESCENDING>> >>, NoOpts) >>
      [] c = "audit_logs" ->
           << Idx(<< <<"admin_id", ASCENDING>> >>, NoOpts),
              Idx(<< <<"timestamp", DESCENDING>> >>, NoOpts) >>
      [] OTHER -> << >>

\* the reference collections seeded at the end of initialize_database
SeedCollections == <<"courses", "tax_rates", "payment_locations">>

\* the canonical seed documents, in insertion order, named by their
\* identifying field ('id' of a course, 'role' of a rate, 'name' of a location)
SAMPLE_COURSES == <<"budgeting_learning_101", "financial_quiz", "savings_basics">>
sample_rates == <<"personal", "trader">>
sample_locations == <<"Gombe State IRS Office">>

SeedDocs(c) ==
    CASE c = "courses" -> SAMPLE_COURSES
      [] c = "tax_rates" -> sample_rates
      [] c = "payment_locations" -> sample_locations

Range(s) == {s[i] : i \in 1..Len(s)}
DeclaredSet == Range(Collections)
SeedSet == Range(SeedCollections)
AllCollections == DeclaredSet \cup SeedSet

\* a document the application did not seed
ForeignDoc == "other"
DocIds(c) == Range(SeedDocs(c)) \cup {ForeignDoc}
(***************************************************************************)
(* State.                                                                  *)
(***************************************************************************)
VARIABLES
    \* the database
    liveColls,          \* names of the collections that exist
    liveIdx,            \* collection -> set of live indexes [name, key, opts]
    docs,               \* seed collection -> document -> number of copies
    \* the environment
    faulty,             \* calls may fail for reasons outside the database state
    concurrent,         \* the instances start at the same time
    pre,                \* the database before the first run (history)
    \* each instance's run of initialize_database
    pc,                 \* where the run is
    attempt,            \* loop variable of the retry loop
    clients,            \* MongoClient objects constructed by the run
    db_instance,        \* the client behind db_instance (0: none yet)
    collections,        \* result of list_collection_names()
    ci,                 \* position of collection_name in collection_schemas
    existing_indexes,   \* result of index_information(), in enumeration order
    ii,                 \* position of index in config['indexes']
    course_i,           \* position of course in SAMPLE_COURSES
    counted,            \* seed collection -> count_documents result (-1: not asked)
    app_config,         \* app.config['COURSES']
    ops,                \* the database calls the run has issued, in order
    sleeps,             \* the delays the run has slept, in order
    logs,               \* the messages the run has logged with logger.error
    \* the web application, serving one request at a time
    stage,              \* how far the request has come
    request,            \* [endpoint, email, db_up]: the route, its <email>, the database answers
    current_user,       \* flask_login's current_user, with what is_admin() returns for it
    session,            \* the flask session: is_anonymous and sid ("": not set)
    response,           \* the endpoint or page the request was answered with
    flashed,            \* the categories of the messages flashed for the request
    handled,            \* the view function of the request has been entered
    emergency_funds,    \* collection emergency_funds: _id -> [email, user_id, email_opt_in]
    funds_before,       \* emergency_funds when the request came in (history)
    tool_usage,         \* number of documents in collection tool_usage
    \* create_user
    users,              \* collection users: the documents, as [_id, email]
    users_before,       \* users when the latest create_user was called (history)
    user_data,          \* the argument of the latest create_user call
    raised,             \* what that call raised ("": it returned a User)
    \* the try block of emergency_fund.main
    form,               \* the submitted EmergencyFundForm
    user_records,       \* user_data of the view: the records it retrieved, in order
    latest_record       \* latest_record of the view

dbVars == <<liveColls, liveIdx, docs>>
webVars == <<stage, request, current_user, session, response, flashed, handled,
             emergency_funds, funds_before, tool_usage>>
\* what no step of initialize_database changes: the environment of the runs,
\* and the web application, which serves no request before it has returned
userVars == <<users, users_before, user_data, raised>>
planVars == <<form, user_records, latest_record>>
envVars == <<faulty, concurrent, pre, webVars, userVars, planVars>>
loopVars == <<collections, ci, existing_indexes, ii, course_i, counted, app_config>>
connVars == <<attempt, clients, db_instance, sleeps>>
runVars == <<dbVars, faulty, concurrent, pre, pc, connVars, loopVars, ops, logs>>
\* what no step of the blueprint's gate, of unsubscribe and of main's head changes
startupVars == <<runVars, userVars, planVars>>
vars == <<dbVars, envVars, pc, connVars, loopVars, ops, logs>>

(***************************************************************************)
(* The database server and driver, as the routine's calls see them.        *)
(***************************************************************************)
\* the name pymongo generates for an index created without one
\* ("email_1", "user_id_1_type_1"): a function of the key; tag "" marks it
IndexName(key) == [base |-> key, tag |-> ""]

LiveIndex(name, key, opts) == [name |-> name, key |-> key, opts |-> opts]

Collation(opts) == {o \in opts : o[1] = "collation"}

\* an index on the key is dropped and built again with the requested options
MongoCreateIndexReplacing(live, key, opts) ==
    LET new == LiveIndex(IndexName(key), key, opts)
    IN  {[ok |-> TRUE, live |-> {i \in live : i.key # key} \cup {new}]}

\* create_index(keys, **options) against the live indexes of a collection:
\* the set of results [ok, live] the server can give.  An identical index is
\* a no-op; a taken name or an index on the same key (and collation) with
\* other options is rejected; the same key and options under another name
\* is rejected by current servers and ignored by old ones.
MongoCreateIndex(live, key, opts) ==
    LET new == LiveIndex(IndexName(key), key, opts)
        sameName == {i \in live : i.name = new.name}
        sameKey == {i \in live : i.key = key /\ Collation(i.opts) = Collation(opts)}
        noop == [ok |-> TRUE, live |-> live]
        rejected == [ok |-> FALSE, live |-> live]
    IN  IF new \in live THEN {noop}
        ELSE IF sameName # {} THEN {rejected}
        ELSE IF sameKey # {}
             THEN IF \E i \in sameKey : i.opts = opts THEN {noop, rejected}
                  ELSE {rejected}
        ELSE {[ok |-> TRUE, live |-> live \cup {new}]}

\* create_collection(name): rejected when the collection exists
MongoCreateCollection(colls, name) ==
    IF name \in colls THEN [ok |-> FALSE, colls |-> colls]
    ELSE [ok |-> TRUE, colls |-> colls \cup {name}]

\* count_documents({})
RECURSIVE SumOver(_, _)
SumOver(f, S) ==
    IF S = {} THEN 0
    ELSE LET x == CHOOSE y \in S : TRUE IN f[x] + SumOver(f, S \ {x})

MongoCount(d) == SumOver(d, DOMAIN d)

\* insert_one(doc): one more copy of doc (each insert gets a fresh _id)
MongoInsertOne(d, doc) == [d EXCEPT ![doc] = @ + 1]

\* the first n documents of a batch inserted
RECURSIVE InsertPrefix(_, _, _)
InsertPrefix(d, batch, n) ==
    IF n = 0 THEN d ELSE MongoInsertOne(InsertPrefix(d, batch, n - 1), batch[n])

\* insert_many(batch), ordered: the results [ok, docs]; a failing batch has
\* inserted the documents before the one that failed
MongoInsertMany(d, batch, mayFail) ==
    {[ok |-> TRUE, docs |-> InsertPrefix(d, batch, Len(batch))]}
    \cup (IF mayFail
          THEN {[ok |-> FALSE, docs |-> InsertPrefix(d, batch, n)] : n \in 0..(Len(batch) - 1)}
          ELSE {})

\* the orders in which the server may enumerate a set of indexes
Enumerations(S) ==
    {s \in [1..Cardinality(S) -> S] : \A i, j \in 1..Cardinality(S) : s[i] = s[j] => i = j}

\* outcomes of a call whose result does not depend on the database state
Outcomes == IF faulty THEN {TRUE, FALSE} ELSE {TRUE}
(***************************************************************************)
(* The databases a run may find.                                           *)
(***************************************************************************)
Flip(key) == [i \in 1..Len(key) |-> <<key[i][1], 0 - key[i][2]>>]

Swap(key) == [i \in 1..Len(key) |-> key[Len(key) + 1 - i]]

\* live indexes an earlier deployment or an operator may have left on the
\* key of a declared index d: the declared index under another name, one
\* with other options, one with a collation (which the server lets coexist
\* with an index on the same key), one in the other direction, one on the
\* same fields in the other order.  (The declared index under its generated
\* name is what a run creates: the second instance finds it.)
LeftOver(d) ==
    (IF Len(d.key) > 1
     THEN {LiveIndex(IndexName(Swap(d.key)), Swap(d.key), d.opts)} ELSE {}) \cup
    { LiveIndex([base |-> d.key, tag |-> "legacy"], d.key, d.opts),
      LiveIndex(IndexName(d.key), d.key,
                IF d.opts = NoOpts THEN Opt("unique", "True") ELSE NoOpts),
      LiveIndex([base |-> d.key, tag |-> "fr"], d.key, d.opts \cup Opt("collation", "fr")),
      LiveIndex(IndexName(Flip(d.key)), Flip(d.key), d.opts) }

\* what the server allows to exist side by side in one collection
Coexist(S) ==
    \A i, j \in S :
        i # j => /\ i.name # j.name
                 /\ ~(i.key = j.key /\ Collation(i.opts) = Collation(j.opts))

NoDocs(c) == [x \in DocIds(c) |-> 0]

\* contents an earlier run or an operator may have left in a seed collection:
\* the canonical set, the first canonical document only, a foreign document
LeftDocs(c, v) ==
    CASE v = "seeded" -> InsertPrefix(NoDocs(c), SeedDocs(c), Len(SeedDocs(c)))
      [] v = "partial" -> InsertPrefix(NoDocs(c), SeedDocs(c), 1)
      [] v = "foreign" -> MongoInsertOne(NoDocs(c), ForeignDoc)
      [] OTHER -> NoDocs(c)

IndexPlants(k) ==
    UNION { {[coll |-> Collections[n], idx |-> i] :
                i \in UNION {LeftOver(d) : d \in Range(Indexes(Collections[n]))}} :
            n \in 1..k }

SeedPlants == SeedSet \X {"seeded", "partial", "foreign"}

RECURSIVE SubsetsUpTo(_, _)
SubsetsUpTo(S, n) ==
    IF n <= 0 THEN {{}}
    ELSE LET smaller == SubsetsUpTo(S, n - 1)
         IN  smaller \cup {T \cup {x} : T \in smaller, x \in S}

\* the database with the first k declared collections, the live indexes I
\* and the seed contents D
Database(k, I, D) ==
    [ colls |-> {Collections[n] : n \in 1..k} \cup {s[1] : s \in D},
      idx   |-> [c \in DeclaredSet |-> {x.idx : x \in {y \in I : y.coll = c}}],
      docs  |-> [c \in SeedSet |->
                    IF \E s \in D : s[1] = c
                    THEN LeftDocs(c, (CHOOSE s \in D : s[1] = c)[2])
                    ELSE NoDocs(c)] ]

(***************************************************************************)
(* The requests the personal blueprint may receive.                        *)
(***************************************************************************)
MaxFunds == 2

Emails == {"a@x.ng", "b@x.ng"}
UserIds == {"u1", "u2"}
Endpoints == {"emergency_fund.main", "emergency_fund.unsubscribe"}

\* flask_login's anonymous user
AnonymousUser == [is_authenticated |-> FALSE, id |-> "None", role |-> "None", admin |-> FALSE]

\* the logged-in users: a personal user, a trader, and a user of another role
\* for whom is_admin() returns True
Users ==
    {AnonymousUser} \cup
    { [is_authenticated |-> TRUE, id |-> u, role |-> r[1], admin |-> r[2]] :
        u \in UserIds, r \in {<<"personal", FALSE>>, <<"trader", FALSE>>, <<"admin", TRUE>>} }

Sessions == [is_anonymous : BOOLEAN, sid : {"", "s1"}]
Requests == [endpoint : Endpoints, email : Emails, db_up : BOOLEAN]

FundIds == 1..MaxFunds
FundDocs == [email : Emails, user_id : UserIds \cup {"None"}, email_opt_in : BOOLEAN]

NoRequest == [endpoint |-> "", email |-> "", db_up |-> TRUE]

(***************************************************************************)
(* The arguments of create_user.  Strings are sequences of characters, so  *)
(* that lower() and split('@') are computed.                               *)
(***************************************************************************)
EmailInputs ==
    { <<"a", "@", "x">>, <<"A", "@", "x">>, <<"a", "@", "y">>,
      <<"b", "@", "x">>, <<"B", "@", "y">> }

Usernames == { <<"a">>, <<"A">>, <<"b">>, <<"c">> }

\* user_data: 'email' and 'password' always given, 'username' given or not
\* (username is << >> when the key is absent)
UserDatas ==
    [email : EmailInputs, has_username : {TRUE}, username : Usernames] \cup
    [email : EmailInputs, has_username : {FALSE}, username : {<< >>}]

NoUserData == [email |-> << >>, has_username |-> FALSE, username |-> << >>]

\* no create_user call has been made
NoAccounts ==
    /\ users = {}
    /\ users_before = {}
    /\ user_data = NoUserData
    /\ raised = ""

(***************************************************************************)
(* The forms emergency_fund.main may be posted, and what it has stored.    *)
(* An Optional() number is a set: empty when the field was left out.       *)
(***************************************************************************)
MaxDependents == 3

Timelines == {"6", "12", "18"}
RiskLevels == {"low", "medium", "high"}
Expenses == {100, 250}
Savings == {{}, {0}, {600}, {5000}}
Incomes == {{}, {0}, {1000}}
Dependents == {{}} \cup {{n} : n \in 0..MaxDependents}

\* the forms that validate: DataRequired on monthly_expenses,
\* risk_tolerance_level and timeline, NumberRange(min=0) on the numbers
Forms ==
    [ timeline : Timelines, risk_tolerance_level : RiskLevels, dependents : Dependents,
      monthly_expenses : Expenses, current_savings : Savings, monthly_income : Incomes,
      email : Emails, email_opt_in : BOOLEAN ]

NoForm ==
    [ timeline |-> "", risk_tolerance_level |-> "", dependents |-> {},
      monthly_expenses |-> 0, current_savings |-> {}, monthly_income |-> {},
      email |-> "", email_opt_in |-> FALSE ]

\* nothing has been posted or shown
NoPlan ==
    /\ form = NoForm
    /\ user_records = << >>
    /\ latest_record = << >>

\* no request is being served
Waiting ==
    /\ stage = "idle"
    /\ request = NoRequest
    /\ current_user = AnonymousUser
    /\ session = [is_anonymous |-> FALSE, sid |-> ""]
    /\ response = ""
    /\ flashed = << >>
    /\ handled = FALSE

\* the web application before it serves: its collections are empty of
\* interest to the runs of initialize_database
NotServing ==
    /\ Waiting
    /\ emergency_funds = [d \in FundIds |->
                            [email |-> "a@x.ng", user_id |-> "None", email_opt_in |-> FALSE]]
    /\ funds_before = emergency_funds
    /\ tool_usage = 0
    /\ NoAccounts
    /\ NoPlan

\* an instance that has not started
Idle ==
    /\ pc = [p \in Procs |-> "idle"]
    /\ attempt = [p \in Procs |-> 0]
    /\ clients = [p \in Procs |-> 0]
    /\ db_instance = [p \in Procs |-> 0]
    /\ collections = [p \in Procs |-> {}]
    /\ ci = [p \in Procs |-> 0]
    /\ existing_indexes = [p \in Procs |-> << >>]
    /\ ii = [p \in Procs |-> 0]
    /\ course_i = [p \in Procs |-> 0]
    /\ counted = [p \in Procs |-> [c \in SeedSet |-> -1]]
    /\ app_config = [p \in Procs |-> NoDocs("courses")]
    /\ ops = [p \in Procs |-> << >>]
    /\ sleeps = [p \in Procs |-> << >>]
    /\ logs = [p \in Procs |-> << >>]

\* the bounded databases: the first k declared collections exist, with at
\* most MaxPre left-over indexes and seed contents, indexes only if withIndexes
InitDatabase(withIndexes) ==
    /\ \E k \in 0..Len(Collections) :
         \E I \in SubsetsUpTo(IF withIndexes THEN IndexPlants(k) ELSE {}, MaxPre) :
           \E D \in SubsetsUpTo(SeedPlants, MaxPre - Cardinality(I)) :
              /\ \A c \in DeclaredSet : Coexist({x.idx : x \in {y \in I : y.coll = c}})
              /\ \A s, t \in D : s[1] = t[1] => s = t
              /\ pre = Database(k, I, D)
    /\ liveColls = pre.colls
    /\ liveIdx = pre.idx
    /\ docs = pre.docs

\* One instance, then a second one once the first has started up (a restart
\* or a rolling deployment), against any of the bounded databases; the only
\* failures are the calls the database rejects.
Init ==
    /\ InitDatabase(TRUE)
    /\ faulty = FALSE
    /\ concurrent = FALSE
    /\ Idle
    /\ NotServing

\* The same, with calls that may fail for any reason (network, permissions),
\* against the bounded databases without left-over indexes.
InitFaults ==
    /\ InitDatabase(FALSE)
    /\ faulty = TRUE
    /\ concurrent = FALSE
    /\ Idle
    /\ NotServing

\* Two instances starting at the same time against an empty database, the
\* only failures being the calls the database rejects.
InitTwo ==
    /\ pre = Database(0, {}, {})
    /\ liveColls = pre.colls
    /\ liveIdx = pre.idx
    /\ docs = pre.docs
    /\ faulty = FALSE
    /\ concurrent = TRUE
    /\ Idle
    /\ NotServing

(***************************************************************************)
(* initialize_database, one database call per step.                        *)
(***************************************************************************)
Terminated == {"done", "raised"}

\* a call as recorded in ops; result is "ok", "transient" (the call raised
\* ConnectionFailure or ServerSelectionTimeoutError) or "error" (it raised
\* anything else)
Call(op, client, coll, key, result) ==
    [op |-> op, client |-> client, coll |-> coll, key |-> key, result |-> result]

Res(ok) == IF ok THEN "ok" ELSE "error"

\* the handler without its "raise": the routine logs and returns normally
ExceptSwallowed(p, log) ==
    /\ logs' = [logs EXCEPT ![p] = Append(log, "initialization_failed")]
    /\ pc' = [pc EXCEPT ![p] = "done"]

\* lines 300-302: the handler of the try block logs the exception, re-raises
Except(p, log) ==
    /\ logs' = [logs EXCEPT ![p] = Append(log, "initialization_failed")]
    /\ pc' = [pc EXCEPT ![p] = "raised"]

\* the retry test one off: "if attempt == max_retries"
LastAttemptOffByOne(a) == a = max_retries

\* line 74
LastAttempt(a) == a = max_retries - 1

NoKey == << >>

\* lines 63-65: the locals and the first MongoClient
StartRun(p) ==
    /\ pc[p] = "idle"
    /\ concurrent \/ \A q \in Procs : q < p => pc[q] = "done"
    /\ clients' = [clients EXCEPT ![p] = 1]
    /\ attempt' = [attempt EXCEPT ![p] = 0]
    /\ pc' = [pc EXCEPT ![p] = "ping"]
    /\ UNCHANGED <<dbVars, envVars, db_instance, sleeps, loopVars, ops, logs>>

\* what command('ping') may do: succeed, raise ConnectionFailure or
\* ServerSelectionTimeoutError, raise something else
PingResults == IF faulty THEN {"ok", "transient", "error"} ELSE {"ok"}

\* lines 67-76: one iteration of the retry loop
Ping(p) ==
    /\ pc[p] = "ping"
    /\ \E r \in PingResults :
         /\ ops' = [ops EXCEPT ![p] = Append(@, Call("ping", 1, "admin", NoKey, r))]
         /\ IF r = "ok"
            THEN /\ pc' = [pc EXCEPT ![p] = "get_db"]
                 /\ UNCHANGED <<attempt, sleeps, logs>>
            ELSE IF r = "transient"
            THEN /\ logs' = [logs EXCEPT ![p] = Append(@, "attempt_failed")]
                 /\ IF LastAttempt(attempt[p])
                    THEN /\ pc' = [pc EXCEPT ![p] = "raised"]
                         /\ UNCHANGED <<attempt, sleeps>>
                    ELSE /\ sleeps' = [sleeps EXCEPT ![p] = Append(@, retry_delay)]
                         /\ attempt' = [attempt EXCEPT ![p] = @ + 1]
                         \* range(max_retries) exhausted: on to line 78
                         /\ pc' = [pc EXCEPT ![p] =
                                IF attempt[p] + 1 < max_retries THEN "ping" ELSE "get_db"]
            ELSE /\ pc' = [pc EXCEPT ![p] = "raised"]
                 /\ UNCHANGED <<attempt, sleeps, logs>>
    /\ UNCHANGED <<dbVars, envVars, clients, db_instance, loopVars>>

\* lines 79-80 with get_db, lines 50-60: a second MongoClient and its ping;
\* get_db logs a failure and re-raises it into the handler of line 300
GetDb(p) ==
    /\ pc[p] = "get_db"
    /\ clients' = [clients EXCEPT ![p] = @ + 1]
    /\ \E r \in PingResults :
         /\ ops' = [ops EXCEPT ![p] = Append(@, Call("ping", clients'[p], "db", NoKey, r))]
         /\ IF r = "ok"
            THEN /\ db_instance' = [db_instance EXCEPT ![p] = clients'[p]]
                 /\ pc' = [pc EXCEPT ![p] = "list_collection_names"]
                 /\ UNCHANGED logs
            ELSE /\ Except(p, Append(logs[p], "get_db_failed"))
                 /\ UNCHANGED db_instance
    /\ UNCHANGED <<dbVars, envVars, attempt, sleeps, loopVars>>

\* line 81
ListCollectionNames(p) ==
    /\ pc[p] = "list_collection_names"
    /\ \E ok \in Outcomes :
         /\ ops' = [ops EXCEPT ![p] =
                        Append(@, Call("list_collection_names", db_instance[p], "db", NoKey, Res(ok)))]
         /\ IF ok
            THEN /\ collections' = [collections EXCEPT ![p] = liveColls]
                 /\ ci' = [ci EXCEPT ![p] = 1]
                 /\ pc' = [pc EXCEPT ![p] = "collection"]
                 /\ UNCHANGED logs
            ELSE /\ Except(p, logs[p])
                 /\ UNCHANGED <<collections, ci>>
    /\ UNCHANGED <<dbVars, envVars, connVars, existing_indexes, ii, course_i, counted,
                   app_config>>

\* the loop body without its create_collection: the run goes on to the indexes
EnsureCollectionOmitted(p) ==
    /\ pc[p] = "collection"
    /\ pc' = [pc EXCEPT ![p] = "index_information"]
    /\ UNCHANGED <<dbVars, envVars, connVars, loopVars, ops, logs>>

\* lines 255-257: create the collection unless list_collection_names had it
EnsureCollection(p) ==
    LET collection_name == Collections[ci[p]]
        created == MongoCreateCollection(liveColls, collection_name)
    IN  /\ pc[p] = "collection"
        /\ IF collection_name \notin collections[p]
           THEN \E ok \in {created.ok} \cup (Outcomes \ {TRUE}) :
                  /\ ops' = [ops EXCEPT ![p] =
                        Append(@, Call("create_collection", db_instance[p],
                                       collection_name, NoKey, Res(ok)))]
                  /\ IF ok
                     THEN /\ liveColls' = created.colls
                          /\ pc' = [pc EXCEPT ![p] = "index_information"]
                          /\ UNCHANGED logs
                     ELSE /\ Except(p, logs[p])
                          /\ UNCHANGED liveColls
           ELSE /\ pc' = [pc EXCEPT ![p] = "index_information"]
                /\ UNCHANGED <<liveColls, ops, logs>>
        /\ UNCHANGED <<liveIdx, docs, envVars, connVars, loopVars>>

\* line 259
IndexInformation(p) ==
    LET collection_name == Collections[ci[p]]
    IN  /\ pc[p] = "index_information"
        /\ \E ok \in Outcomes :
             /\ ops' = [ops EXCEPT ![p] =
                   Append(@, Call("index_information", db_instance[p],
                                  collection_name, NoKey, Res(ok)))]
             /\ IF ok
                THEN /\ \E e \in Enumerations(liveIdx[collection_name]) :
                          existing_indexes' = [existing_indexes EXCEPT ![p] = e]
                     /\ ii' = [ii EXCEPT ![p] = 1]
                     /\ pc' = [pc EXCEPT ![p] = "index"]
                     /\ UNCHANGED logs
                ELSE /\ Except(p, logs[p])
                     /\ UNCHANGED <<existing_indexes, ii>>
        /\ UNCHANGED <<dbVars, envVars, connVars, collections, ci, course_i, counted,
                       app_config>>

\* the key comparison on field names alone, directions ignored
IndexExistsByFields(existing, keys, options) ==
    LET fields(k) == [n \in 1..Len(k) |-> k[n][1]]
        matches == {n \in 1..Len(existing) : fields(existing[n].key) = fields(keys)}
    IN  /\ matches # {}
        /\ existing[CHOOSE n \in matches : \A m \in matches : n <= m].opts = options

\* the search by the name the driver generates for the declared key
IndexExistsByName(existing, keys, options) ==
    LET matches == {n \in 1..Len(existing) : existing[n].name = IndexName(keys)}
    IN  /\ matches # {}
        /\ existing[CHOOSE n \in matches : \A m \in matches : n <= m].opts = options

\* lines 264-271: the first existing index with the declared key tuple
\* decides; index_exists only if its options equal the declared ones
IndexExists(existing, keys, options) ==
    LET matches == {n \in 1..Len(existing) : existing[n].key = keys}
    IN  /\ matches # {}
        /\ existing[CHOOSE n \in matches : \A m \in matches : n <= m].opts = options

\* the loop over config['indexes'] one short: the last index is never reached
AfterIndexSkipLast(p) ==
    IF ii[p] + 1 < Len(Indexes(Collections[ci[p]])) THEN "index"
    ELSE IF ci[p] < Len(Collections) THEN "collection"
    ELSE "courses_count"

\* where the run goes after the index at position ii of collection ci
AfterIndex(p) ==
    IF ii[p] < Len(Indexes(Collections[ci[p]])) THEN "index"
    ELSE IF ci[p] < Len(Collections) THEN "collection"
    ELSE "courses_count"

\* lines 260-274: one iteration of the loop over config['indexes']
EnsureIndex(p) ==
    LET collection_name == Collections[ci[p]]
        index == Indexes(collection_name)[ii[p]]
        keys == index.key
        options == index.opts
        next == AfterIndex(p)
        advance ==
            /\ pc' = [pc EXCEPT ![p] = next]
            /\ ii' = [ii EXCEPT ![p] = IF next = "index" THEN @ + 1 ELSE 0]
            /\ ci' = [ci EXCEPT ![p] = IF next = "collection" THEN @ + 1 ELSE @]
            /\ existing_indexes' =
                  [existing_indexes EXCEPT ![p] = IF next = "index" THEN @ ELSE << >>]
    IN  /\ pc[p] = "index"
        /\ IF IndexExists(existing_indexes[p], keys, options)
           THEN /\ advance
                /\ UNCHANGED <<liveIdx, ops, logs>>
           ELSE \E r \in MongoCreateIndex(liveIdx[collection_name], keys, options)
                          \cup {[ok |-> FALSE, live |-> liveIdx[collection_name]] :
                                  x \in Outcomes \ {TRUE}} :
                  /\ ops' = [ops EXCEPT ![p] =
                        Append(@, Call("create_index", db_instance[p],
                                       collection_name, keys, Res(r.ok)))]
                  /\ liveIdx' = [liveIdx EXCEPT ![collection_name] = r.live]
                  /\ IF r.ok
                     THEN /\ advance
                          /\ UNCHANGED logs
                     ELSE /\ Except(p, logs[p])
                          /\ UNCHANGED <<ii, ci, existing_indexes>>
        /\ UNCHANGED <<liveColls, docs, envVars, connVars, collections, course_i, counted,
                       app_config>>

\* "if <collection>.count_documents({}) == 0": lines 277, 284, 293
CountDocuments(p, c, here, empty, nonempty) ==
    /\ pc[p] = here
    /\ \E ok \in Outcomes :
         /\ ops' = [ops EXCEPT ![p] =
               Append(@, Call("count_documents", db_instance[p], c, NoKey, Res(ok)))]
         /\ IF ok
            THEN /\ counted' = [counted EXCEPT ![p][c] = MongoCount(docs[c])]
                 /\ pc' = [pc EXCEPT ![p] = IF MongoCount(docs[c]) = 0 THEN empty ELSE nonempty]
                 /\ UNCHANGED logs
            ELSE /\ Except(p, logs[p])
                 /\ UNCHANGED counted
    /\ UNCHANGED <<dbVars, envVars, connVars, collections, ci, existing_indexes, ii,
                   app_config>>

\* "<collection>.insert_many(...)": lines 289, 297
InsertMany(p, c, here, next) ==
    /\ pc[p] = here
    /\ \E r \in MongoInsertMany(docs[c], SeedDocs(c), faulty) :
         /\ ops' = [ops EXCEPT ![p] =
               Append(@, Call("insert_many", db_instance[p], c, NoKey, Res(r.ok)))]
         /\ docs' = [docs EXCEPT ![c] = r.docs]
         /\ liveColls' = IF docs'[c] # docs[c] THEN liveColls \cup {c} ELSE liveColls
         /\ IF r.ok
            THEN /\ pc' = [pc EXCEPT ![p] = next]
                 /\ UNCHANGED logs
            ELSE /\ Except(p, logs[p])
    /\ UNCHANGED <<liveIdx, envVars, connVars, loopVars>>

\* the emptiness test inverted: "if count_documents({}) != 0"
CountCoursesInverted(p) ==
    /\ CountDocuments(p, "courses", "courses_count", "courses_find", "courses_insert")
    /\ course_i' = [course_i EXCEPT ![p] = IF pc'[p] = "courses_insert" THEN 1 ELSE @]

\* line 277
CountCourses(p) ==
    /\ CountDocuments(p, "courses", "courses_count", "courses_insert", "courses_find")
    /\ course_i' = [course_i EXCEPT ![p] = IF pc'[p] = "courses_insert" THEN 1 ELSE @]

\* lines 278-279: one iteration of "for course in SAMPLE_COURSES: insert_one(course)"
InsertCourse(p) ==
    /\ pc[p] = "courses_insert"
    /\ \E ok \in Outcomes :
         /\ ops' = [ops EXCEPT ![p] =
               Append(@, Call("insert_one", db_instance[p], "courses", NoKey, Res(ok)))]
         /\ IF ok
            THEN /\ docs' = [docs EXCEPT !["courses"] =
                                 MongoInsertOne(@, SAMPLE_COURSES[course_i[p]])]
                 /\ liveColls' = liveColls \cup {"courses"}
                 /\ IF course_i[p] < Len(SAMPLE_COURSES)
                    THEN /\ course_i' = [course_i EXCEPT ![p] = @ + 1]
                         /\ UNCHANGED pc
                    ELSE /\ course_i' = [course_i EXCEPT ![p] = 0]
                         /\ pc' = [pc EXCEPT ![p] = "courses_find"]
                 /\ UNCHANGED logs
            ELSE /\ Except(p, logs[p])
                 /\ UNCHANGED <<docs, liveColls, course_i>>
    /\ UNCHANGED <<liveIdx, envVars, connVars, collections, ci, existing_indexes, ii,
                   counted, app_config>>

\* line 281: app.config['COURSES'] = list(courses_collection.find(...))
FindCourses(p) ==
    /\ pc[p] = "courses_find"
    /\ \E ok \in Outcomes :
         /\ ops' = [ops EXCEPT ![p] =
               Append(@, Call("find", db_instance[p], "courses", NoKey, Res(ok)))]
         /\ IF ok
            THEN /\ app_config' = [app_config EXCEPT ![p] = docs["courses"]]
                 /\ pc' = [pc EXCEPT ![p] = "tax_rates_count"]
                 /\ UNCHANGED logs
            ELSE /\ Except(p, logs[p])
                 /\ UNCHANGED app_config
    /\ UNCHANGED <<dbVars, envVars, connVars, collections, ci, existing_indexes, ii,
                   course_i, counted>>

\* line 284
CountTaxRates(p) ==
    /\ CountDocuments(p, "tax_rates", "tax_rates_count", "tax_rates_insert",
                      "payment_locations_count")
    /\ UNCHANGED course_i

\* lines 285-289
InsertTaxRates(p) ==
    InsertMany(p, "tax_rates", "tax_rates_insert", "payment_locations_count")

\* line 293
CountPaymentLocations(p) ==
    /\ CountDocuments(p, "payment_locations", "payment_locations_count",
                      "payment_locations_insert", "done")
    /\ UNCHANGED course_i

\* lines 294-297
InsertPaymentLocations(p) ==
    InsertMany(p, "payment_locations", "payment_locations_insert", "done")

Next ==
    \E p \in Procs :
        \/ StartRun(p)
        \/ Ping(p)
        \/ GetDb(p)
        \/ ListCollectionNames(p)
        \/ EnsureCollection(p)
        \/ IndexInformation(p)
        \/ EnsureIndex(p)
        \/ CountCourses(p)
        \/ InsertCourse(p)
        \/ FindCourses(p)
        \/ CountTaxRates(p)
        \/ InsertTaxRates(p)
        \/ CountPaymentLocations(p)
        \/ InsertPaymentLocations(p)

Spec == Init /\ [][Next]_vars

SpecFaults == InitFaults /\ [][Next]_vars

SpecTwo == InitTwo /\ [][Next]_vars

(***************************************************************************)
(* The personal blueprint: its before_request gate, the decorators of      *)
(* emergency_fund.main and the view functions, one step each.              *)
(***************************************************************************)
\* a request comes in: any route of the blueprint, from any user and session
Receive ==
    /\ stage = "idle"
    /\ \E r \in Requests, u \in Users, s \in Sessions :
         /\ request' = r
         /\ current_user' = u
         /\ session' = s
    /\ stage' = "before_request"
    /\ funds_before' = emergency_funds
    /\ UNCHANGED <<response, flashed, handled, emergency_funds, tool_usage, startupVars>>

\* the gate opened to whoever custom_login_required lets in
check_personal_access_or_anonymous(user, sess) ==
    user.is_authenticated \/ sess.is_anonymous

\* personal/__init__.py lines 8-10; sess is not looked at
check_personal_access(user, sess) ==
    user.is_authenticated /\ (user.role = "personal" \/ user.admin)

\* where a request that passed the gate goes: main is wrapped in
\* custom_login_required and requires_role, unsubscribe in nothing
FirstWrapper(endpoint) ==
    IF endpoint = "emergency_fund.main" THEN "custom_login_required" ELSE "view"

\* personal/__init__.py lines 30-37, run by flask before the view function
\* of every route of the blueprint and of the blueprints nested in it
check_access ==
    /\ stage = "before_request"
    /\ IF ~check_personal_access(current_user, session)
       THEN /\ flashed' = Append(flashed, "danger")
            /\ response' = "dashboard.index"
            /\ stage' = "responded"
       ELSE /\ stage' = FirstWrapper(request.endpoint)
            /\ UNCHANGED <<flashed, response>>
    /\ UNCHANGED <<request, current_user, session, handled, emergency_funds,
                   funds_before, tool_usage, startupVars>>

\* emergency_fund.py lines 25-34
custom_login_required ==
    /\ stage = "custom_login_required"
    /\ IF current_user.is_authenticated \/ session.is_anonymous
       THEN /\ stage' = "requires_role"
            /\ UNCHANGED response
       ELSE /\ response' = "users_blueprint.login"
            /\ stage' = "responded"
    /\ UNCHANGED <<request, current_user, session, flashed, handled, emergency_funds,
                   funds_before, tool_usage, startupVars>>

\* emergency_fund.py line 91: utils.requires_role either calls the view
\* function or answers itself
requires_role ==
    /\ stage = "requires_role"
    /\ \E allowed \in BOOLEAN :
         IF allowed
         THEN /\ stage' = "view"
              /\ UNCHANGED response
         ELSE /\ response' = "denied"
              /\ stage' = "responded"
    /\ UNCHANGED <<request, current_user, session, flashed, handled, emergency_funds,
                   funds_before, tool_usage, startupVars>>

\* models.py line 510: the parameters of log_tool_usage, db and tool_name
\* without a default
LogToolUsageParameters == {"db", "tool_name", "user_id", "session_id", "action"}
LogToolUsageRequired == {"db", "tool_name"}

\* emergency_fund.py lines 108-114 and 309-315: the keywords of the calls
LogToolUsageKeywords == {"mongo", "tool_name", "user_id", "session_id", "action"}

\* python binds a call by keywords only if each names a parameter and every
\* parameter without a default is given; otherwise the call raises TypeError
\* before the body of the function, and its try, is entered
Binds(keywords, parameters, required) ==
    keywords \subseteq parameters /\ required \subseteq keywords

\* models.py lines 510-522, once bound: insert_one into tool_usage, any
\* exception logged and swallowed
log_tool_usage(usage, db_up) == IF db_up THEN usage + 1 ELSE usage

\* the filter of update_many, lines 316-318
Matches(doc, email, user) ==
    /\ doc.email = email
    /\ user.is_authenticated => doc.user_id = user.id

\* update_many(filter_kwargs, {'$set': {'email_opt_in': False}}), lines 319-322
UpdateMany(funds, email, user) ==
    [d \in DOMAIN funds |->
        IF Matches(funds[d], email, user)
        THEN [funds[d] EXCEPT !.email_opt_in = FALSE]
        ELSE funds[d]]

\* emergency_fund.py lines 304-327: whatever raises inside the try is
\* logged and flashed as an error; the answer is a redirect to index
unsubscribe ==
    /\ stage = "view"
    /\ request.endpoint = "emergency_fund.unsubscribe"
    /\ handled' = TRUE
    /\ IF ~Binds(LogToolUsageKeywords, LogToolUsageParameters, LogToolUsageRequired)
       THEN /\ flashed' = Append(flashed, "danger")
            /\ UNCHANGED <<emergency_funds, tool_usage>>
       ELSE /\ tool_usage' = log_tool_usage(tool_usage, request.db_up)
            /\ IF request.db_up
               THEN /\ emergency_funds' =
                          UpdateMany(emergency_funds, request.email, current_user)
                    /\ flashed' = Append(flashed, "success")
               ELSE /\ flashed' = Append(flashed, "danger")
                    /\ UNCHANGED emergency_funds
    /\ response' = "index"
    /\ stage' = "responded"
    /\ UNCHANGED <<request, current_user, session, funds_before, startupVars>>

\* emergency_fund.py lines 89-114 for a GET: the session gets its sid, then
\* log_tool_usage is called outside the try of line 116, so that what the
\* call raises leaves the view function and flask answers with its error
\* page; past it, the view reads and renders (lines 116-302)
main ==
    /\ stage = "view"
    /\ request.endpoint = "emergency_fund.main"
    /\ handled' = TRUE
    /\ session' = [session EXCEPT !.sid = IF @ = "" THEN "s1" ELSE @]
    /\ IF ~Binds(LogToolUsageKeywords, LogToolUsageParameters, LogToolUsageRequired)
       THEN /\ response' = "InternalServerError"
            /\ UNCHANGED <<tool_usage, flashed>>
       ELSE /\ tool_usage' = log_tool_usage(tool_usage, request.db_up)
            /\ response' = "emergency_fund_main.html"
            /\ flashed' = IF request.db_up THEN flashed ELSE Append(flashed, "danger")
    /\ stage' = "responded"
    /\ UNCHANGED <<request, current_user, emergency_funds, funds_before, startupVars>>

\* the response has gone out; the next request may come
Finish ==
    /\ stage = "responded"
    /\ stage' = "idle"
    /\ request' = NoRequest
    /\ current_user' = AnonymousUser
    /\ session' = [is_anonymous |-> FALSE, sid |-> ""]
    /\ response' = ""
    /\ flashed' = << >>
    /\ handled' = FALSE
    /\ funds_before' = emergency_funds
    /\ UNCHANGED <<emergency_funds, tool_usage, startupVars>>

\* The application serving requests after start-up, the collection
\* emergency_funds holding any MaxFunds documents.
InitServing ==
    /\ pre = Database(0, {}, {})
    /\ liveColls = pre.colls
    /\ liveIdx = pre.idx
    /\ docs = pre.docs
    /\ faulty = FALSE
    /\ concurrent = FALSE
    /\ Idle
    /\ Waiting
    /\ emergency_funds \in [FundIds -> FundDocs]
    /\ funds_before = emergency_funds
    /\ tool_usage = 0
    /\ NoAccounts
    /\ NoPlan

NextServing ==
    \/ Receive
    \/ check_access
    \/ custom_login_required
    \/ requires_role
    \/ main
    \/ unsubscribe
    \/ Finish

SpecServing == InitServing /\ [][NextServing]_vars

(***************************************************************************)
(* create_user against the users collection.                               *)
(***************************************************************************)
\* str.lower() on the characters of the model
LowerChar(ch) ==
    CASE ch = "A" -> "a"
      [] ch = "B" -> "b"
      [] OTHER -> ch

Lower(s) == [n \in 1..Len(s) |-> LowerChar(s[n])]

\* s.split('@')[0]: what stands before the first '@', all of s without one
LocalPart(s) ==
    LET ats == {n \in 1..Len(s) : s[n] = "@"}
    IN  IF ats = {} THEN s
        ELSE SubSeq(s, 1, (CHOOSE n \in ats : \A m \in ats : n <= m) - 1)

\* a live index on the single key email ascending that is unique
UniqueEmailIndex(live) ==
    \E i \in live :
        /\ i.key = << <<"email", ASCENDING>> >>
        /\ <<"unique", "True">> \in i.opts

\* the server raises DuplicateKeyError for a document whose _id is taken, or
\* whose email is taken while a unique index on email is live
DuplicateKey(coll, doc, live) ==
    \/ \E u \in coll : u._id = doc._id
    \/ UniqueEmailIndex(live) /\ \E u \in coll : u.email = doc.email

\* the email stored as it was given
StoredEmailAsGiven(data) == data.email

\* line 343: 'email': user_data['email'].lower()
StoredEmail(data) == Lower(data.email)

\* line 337: user_data.get('username', user_data['email'].split('@')[0]).lower()
UserId(data) ==
    Lower(IF data.has_username THEN data.username ELSE LocalPart(data.email))

\* lines 335-378: insert_one of the document; DuplicateKeyError becomes
\* ValueError, anything else the server raises is raised as it is
create_user ==
    \E data \in UserDatas :
        LET user_doc == [_id |-> UserId(data), email |-> StoredEmail(data)]
        IN  /\ user_data' = data
            /\ users_before' = users
            /\ \E ok \in Outcomes :
                 IF ~ok
                 THEN /\ raised' = "Exception"
                      /\ UNCHANGED users
                 ELSE IF DuplicateKey(users, user_doc, liveIdx["users"])
                 THEN /\ raised' = "ValueError"
                      /\ UNCHANGED users
                 ELSE /\ users' = users \cup {user_doc}
                      /\ raised' = ""
            /\ UNCHANGED <<runVars, webVars, planVars>>

\* the database as a completed run of initialize_database leaves an empty one
Reconciled ==
    [ colls |-> AllCollections,
      idx   |-> [c \in DeclaredSet |->
                    {LiveIndex(IndexName(d.key), d.key, d.opts) : d \in Range(Indexes(c))}],
      docs  |-> [c \in SeedSet |-> InsertPrefix(NoDocs(c), SeedDocs(c), Len(SeedDocs(c)))] ]

\* The application after start-up on a reconciled database, no user yet.
InitUsers ==
    /\ pre = Reconciled
    /\ liveColls = pre.colls
    /\ liveIdx = pre.idx
    /\ docs = pre.docs
    /\ faulty = FALSE
    /\ concurrent = FALSE
    /\ Idle
    /\ NotServing

NextUsers == create_user

SpecUsers == InitUsers /\ [][NextUsers]_vars

(***************************************************************************)
(* The computations of emergency_fund.main: the plan of a valid            *)
(* create_plan submission (lines 131-186) and the records the page shows   *)
(* (lines 226-237).  main comes to them only past its log_tool_usage calls *)
(* of lines 108 and 123; they are applied here to every valid form and to  *)
(* every content of the collection.                                        *)
(***************************************************************************)
\* int(form.timeline.data)
IntOf(s) ==
    CASE s = "6" -> 6
      [] s = "12" -> 12
      [] s = "18" -> 18

\* "x or 0" and the truth value of an Optional() number
OrZero(x) == IF x = {} THEN 0 ELSE CHOOSE n \in x : TRUE
Truthy(x) == OrZero(x) # 0

Max(a, b) == IF a >= b THEN a ELSE b
Min(a, b) == IF a <= b THEN a ELSE b

RECURSIVE GCD(_, _)
GCD(a, b) == IF b = 0 THEN a ELSE GCD(b, a % b)

\* the quotient a / b of python, b > 0 and a >= 0, as a fraction in lowest terms
Ratio(a, b) == [num |-> a \div GCD(a, b), den |-> b \div GCD(a, b)]

\* the two extra months given from the first dependent on
RecommendedMonthsFromOneDependent(f) ==
    LET months == IntOf(f.timeline)
        base == IF f.risk_tolerance_level = "high" THEN Max(12, months)
                ELSE IF f.risk_tolerance_level = "low" THEN Min(6, months)
                ELSE months
    IN  IF Truthy(f.dependents) /\ OrZero(f.dependents) >= 1 THEN base + 2 ELSE base

\* lines 131-141
RecommendedMonths(f) ==
    LET months == IntOf(f.timeline)
        base == IF f.risk_tolerance_level = "high" THEN Max(12, months)
                ELSE IF f.risk_tolerance_level = "low" THEN Min(6, months)
                ELSE months
    IN  IF Truthy(f.dependents) /\ OrZero(f.dependents) >= 2 THEN base + 2 ELSE base

\* line 143
TargetAmount(f) == f.monthly_expenses * RecommendedMonths(f)

\* line 144
Gap(f) == TargetAmount(f) - OrZero(f.current_savings)

\* line 145
MonthlySavings(f) ==
    IF Gap(f) > 0 THEN Ratio(Gap(f), IntOf(f.timeline)) ELSE Ratio(0, 1)

\* lines 147-149: None (the empty set) without an income
PercentOfIncome(f) ==
    IF Truthy(f.monthly_income) /\ OrZero(f.monthly_income) > 0
    THEN {Ratio(MonthlySavings(f).num * 100,
                MonthlySavings(f).den * OrZero(f.monthly_income))}
    ELSE {}

\* 'Steady Saver' only for a gap below zero
BadgesStrictGap(f) ==
    (IF f.timeline \in {"6", "12"} THEN <<"Planner">> ELSE << >>) \o
    (IF Truthy(f.dependents) /\ OrZero(f.dependents) >= 2 THEN <<"Protector">> ELSE << >>) \o
    (IF Gap(f) < 0 THEN <<"Steady Saver">> ELSE << >>) \o
    (IF OrZero(f.current_savings) >= TargetAmount(f) THEN <<"Fund Master">> ELSE << >>)

\* lines 151-159
Badges(f) ==
    (IF f.timeline \in {"6", "12"} THEN <<"Planner">> ELSE << >>) \o
    (IF Truthy(f.dependents) /\ OrZero(f.dependents) >= 2 THEN <<"Protector">> ELSE << >>) \o
    (IF Gap(f) <= 0 THEN <<"Steady Saver">> ELSE << >>) \o
    (IF OrZero(f.current_savings) >= TargetAmount(f) THEN <<"Fund Master">> ELSE << >>)

\* lines 160-181: the document of a plan (first_name, lang and the _id, a
\* fresh uuid, left out)
PlanRecord(f, user_id, session_id, created_at) ==
    [ user_id |-> user_id,
      session_id |-> session_id,
      email |-> f.email,
      email_opt_in |-> f.email_opt_in,
      monthly_expenses |-> f.monthly_expenses,
      monthly_income |-> f.monthly_income,
      current_savings |-> OrZero(f.current_savings),
      risk_tolerance_level |-> f.risk_tolerance_level,
      dependents |-> OrZero(f.dependents),
      timeline |-> IntOf(f.timeline),
      recommended_months |-> RecommendedMonths(f),
      target_amount |-> TargetAmount(f),
      savings_gap |-> Gap(f),
      monthly_savings |-> MonthlySavings(f),
      percent_of_income |-> PercentOfIncome(f),
      badges |-> Badges(f),
      created_at |-> created_at ]

\* lines 160-186 after the computation: insert_one (created_at is now, later
\* than that of every stored plan) and the success message;
\* what insert_one raises goes to the handler of line 283, which shows the
\* page without records
create_plan ==
    /\ stage = "create_plan"
    /\ IF request.db_up
       THEN /\ emergency_funds' =
                  Append(emergency_funds,
                         PlanRecord(form,
                                    IF current_user.is_authenticated
                                    THEN current_user.id ELSE "None",
                                    session.sid, MaxFunds + 1))
            /\ flashed' = Append(flashed, "success")
            /\ stage' = "records"
            /\ UNCHANGED response
       ELSE /\ flashed' = Append(flashed, "danger")
            /\ response' = "emergency_fund_main.html"
            /\ stage' = "responded"
            /\ UNCHANGED emergency_funds
    /\ UNCHANGED <<request, current_user, session, handled, funds_before, tool_usage,
                   form, user_records, latest_record, runVars, userVars>>

\* find({field: value}).sort('created_at', -1): the matching documents by
\* falling created_at, equal ones in any order
FindSorted(coll, field, value) ==
    LET hit == {n \in DOMAIN coll : coll[n][field] = value}
        falling(e) == \A i, j \in 1..Cardinality(hit) :
                          i < j => coll[e[i]].created_at >= coll[e[j]].created_at
    IN  {[k \in 1..Cardinality(hit) |-> coll[e[k]]] :
            e \in {e \in Enumerations(hit) : falling(e)}}

\* lines 236-237: records[-1][1] if records else {}
LatestRecord(records) ==
    IF Len(records) = 0 THEN << >> ELSE records[Len(records)]

\* lines 226-237 and 277: the records of the user (of the session, for an
\* anonymous one), else those with the user's email; latest_record; the page
view ==
    /\ stage = "records"
    /\ IF request.db_up
       THEN /\ \E own \in FindSorted(emergency_funds,
                                    IF current_user.is_authenticated
                                    THEN "user_id" ELSE "session_id",
                                    IF current_user.is_authenticated
                                    THEN current_user.id ELSE session.sid) :
                 \E data \in IF /\ Len(own) = 0
                                /\ current_user.is_authenticated
                                /\ current_user.email # ""
                             THEN FindSorted(emergency_funds, "email", current_user.email)
                             ELSE {own} :
                     /\ user_records' = data
                     /\ latest_record' = LatestRecord(data)
            /\ UNCHANGED flashed
       ELSE /\ user_records' = << >>
            /\ latest_record' = << >>
            /\ flashed' = Append(flashed, "danger")
    /\ response' = "emergency_fund_main.html"
    /\ stage' = "responded"
    /\ UNCHANGED <<request, current_user, session, handled, emergency_funds, funds_before,
                   tool_usage, form, runVars, userVars>>

\* the users the gate lets through to main, with their email
PlanUsers ==
    { [is_authenticated |-> TRUE, id |-> "u1", role |-> "personal", admin |-> FALSE,
       email |-> "a@x.ng"],
      [is_authenticated |-> TRUE, id |-> "u2", role |-> "personal", admin |-> FALSE,
       email |-> "b@x.ng"] }

\* plans stored earlier, by a user or by a session without one
StoredForm ==
    [ timeline |-> "12", risk_tolerance_level |-> "medium", dependents |-> {},
      monthly_expenses |-> 100, current_savings |-> {}, monthly_income |-> {},
      email |-> "a@x.ng", email_opt_in |-> FALSE ]

StoredPlans ==
    { PlanRecord([StoredForm EXCEPT !.email = e], u, "s0", t) :
        e \in Emails, u \in UserIds \cup {"None"}, t \in 1..MaxFunds }

SeqsUpTo(S, n) == UNION {[1..k -> S] : k \in 0..n}

\* A valid create_plan submission about to be computed, or the page about to
\* be shown, for a user past the gate.
InitPlan ==
    /\ pre = Reconciled
    /\ liveColls = pre.colls
    /\ liveIdx = pre.idx
    /\ docs = pre.docs
    /\ faulty = FALSE
    /\ concurrent = FALSE
    /\ Idle
    /\ NoAccounts
    /\ request \in [endpoint : {"emergency_fund.main"}, email : {""}, db_up : BOOLEAN]
    /\ current_user \in PlanUsers
    /\ session = [is_anonymous |-> FALSE, sid |-> "s1"]
    /\ response = ""
    /\ flashed = << >>
    /\ handled = TRUE
    /\ tool_usage = 0
    /\ \/ /\ stage = "create_plan"
          /\ request.db_up
          /\ form \in Forms
          /\ emergency_funds \in SeqsUpTo(StoredPlans, 1)
       \/ /\ stage = "records"
          /\ form = NoForm
          /\ emergency_funds \in SeqsUpTo(StoredPlans, MaxFunds)
    /\ funds_before = emergency_funds
    /\ user_records = << >>
    /\ latest_record = << >>

NextPlan ==
    \/ create_plan
    \/ view

SpecPlan == InitPlan /\ [][NextPlan]_vars

TypeOK ==
    /\ pc \in [Procs -> {"idle", "ping", "get_db", "list_collection_names", "collection",
                          "index_information", "index", "courses_count", "courses_insert",
                          "courses_find", "tax_rates_count", "tax_rates_insert",
                          "payment_locations_count", "payment_locations_insert",
                          "done", "raised"}]
    /\ liveColls \subseteq AllCollections
    /\ \A c \in DeclaredSet : Coexist(liveIdx[c])

(***************************************************************************)
(* Properties.                                                             *)
(***************************************************************************)
WriteOps == {"create_collection", "create_index", "insert_one", "insert_many"}

Last(s) == s[Len(s)]

\* the positions in ops[p] of the calls op on collection c
CallsOf(p, op, c) == {n \in 1..Len(ops[p]) : ops[p][n].op = op /\ ops[p][n].coll = c}

\* the pings of run p on its client number cl
PingsOn(p, cl) == {n \in 1..Len(ops[p]) : ops[p][n].op = "ping" /\ ops[p][n].client = cl}

\* the canonical seed set of c
Canonical(c) == InsertPrefix(NoDocs(c), SeedDocs(c), Len(SeedDocs(c)))

\* the database held, before any run, an index on the key of the declared
\* index d of collection c with options other than the declared ones
Divergent(c, d) == \E i \in pre.idx[c] : i.key = d.key /\ i.opts # d.opts

\* C1: where a live index has the key tuple of a declared index and other
\* options, no run issues a create_index for that key tuple, the live index
\* stays as it is, and no run aborts on that index.
C1_DivergentIsSkipped ==
    \A p \in Procs : \A c \in DeclaredSet : \A d \in Range(Indexes(c)) :
        Divergent(c, d) =>
            /\ \A n \in CallsOf(p, "create_index", c) : ops[p][n].key # d.key
            /\ pre.idx[c] \subseteq liveIdx[c]
            /\ pc[p] # "raised"

\* C2: once the first instance has completed, the second run issues no
\* create_collection, no create_index and no insert.
C2_SecondRunIssuesNothing ==
    pc[1] = "done" => \A n \in 1..Len(ops[2]) : ops[2][n].op \notin WriteOps

\* what the runs have added to seed collection c
AddedDocs(c) == [x \in DocIds(c) |-> docs[c][x] - pre.docs[c][x]]

\* C3: once the run has returned or aborted, each seed collection has gained
\* none or all of its canonical seed documents, never a part of them.
C3_SeedingAllOrNothing ==
    (pc[1] \in Terminated /\ pc[2] \in Terminated \cup {"idle"}) =>
        \A c \in SeedSet : AddedDocs(c) \in {NoDocs(c), Canonical(c)}

\* the number of documents run p has inserted into seed collection c
DocsInserted(p, c) ==
    Cardinality({n \in CallsOf(p, "insert_one", c) : ops[p][n].result = "ok"})
    + Len(SeedDocs(c))
      * Cardinality({n \in CallsOf(p, "insert_many", c) : ops[p][n].result = "ok"})

\* C4: a run that completes has inserted the canonical seed set of a seed
\* collection if the count it read was zero and has issued no insert on it
\* otherwise; a collection that was not empty holds exactly its prior
\* documents, an empty one exactly the canonical set.
C4_SeedGuard ==
    \A p \in Procs : pc[p] = "done" =>
        \A c \in SeedSet :
            /\ counted[p][c] = 0 => DocsInserted(p, c) = Len(SeedDocs(c))
            /\ counted[p][c] # 0 =>
                    CallsOf(p, "insert_one", c) \cup CallsOf(p, "insert_many", c) = {}
            /\ docs[c] = IF MongoCount(pre.docs[c]) = 0 THEN Canonical(c) ELSE pre.docs[c]

\* a run has completed that seeded courses and left a non-empty tax_rates alone
C4_Witness ==
    /\ pc[1] = "done"
    /\ counted[1]["courses"] = 0
    /\ counted[1]["tax_rates"] > 0
    /\ docs["tax_rates"] # Canonical("tax_rates")

\* C5: when a run completes, every declared index of every declared
\* collection has a live index with its ordered key tuple.
C5_IndexConvergence ==
    \A p \in Procs : pc[p] = "done" =>
        \A c \in DeclaredSet : \A d \in Range(Indexes(c)) :
            \E i \in liveIdx[c] : i.key = d.key

\* a run has completed that created a collection with its indexes and found
\* a left-over index in another
C5_Witness ==
    /\ pc[1] = "done"
    /\ CallsOf(1, "create_collection", "audit_logs") # {}
    /\ CallsOf(1, "create_index", "audit_logs") # {}
    /\ pre.idx["users"] # {}

\* every call of run p so far is a ping that failed with a connectivity error
AllTransient(p) ==
    \A n \in 1..Len(ops[p]) : ops[p][n].op = "ping" /\ ops[p][n].result = "transient"

\* C6: a run whose probe fails with a connectivity error on every attempt
\* makes exactly 3 attempts, sleeps the same retry_delay between consecutive
\* attempts and then raises; no run makes a fourth attempt or a third sleep.
C6_RetryBound ==
    \A p \in Procs :
        /\ Cardinality(PingsOn(p, 1)) <= 3
        /\ Len(sleeps[p]) < 3
        /\ \A n \in 1..Len(sleeps[p]) : sleeps[p][n] = retry_delay
        /\ AllTransient(p) =>
              /\ pc[p] \in {"idle", "ping", "raised"}
              /\ pc[p] = "ping" => Len(ops[p]) < 3 /\ Len(sleeps[p]) = Len(ops[p])
              /\ pc[p] = "raised" => Len(ops[p]) = 3 /\ Len(sleeps[p]) = 2

\* a run has raised after three failed probes
C6_Witness ==
    pc[1] = "raised" /\ AllTransient(1) /\ Len(ops[1]) = 3

\* C7: a create_collection, create_index or insert that failed is the last
\* call of its run: the run has logged the failure and raised.
C7_AbortOnFirstFailure ==
    \A p \in Procs : \A n \in 1..Len(ops[p]) :
        (ops[p][n].op \in WriteOps /\ ops[p][n].result # "ok") =>
            /\ n = Len(ops[p])
            /\ pc[p] = "raised"
            /\ logs[p] # << >> /\ Last(logs[p]) = "initialization_failed"

\* a run has raised on a failed create_index after creating a collection
C7_Witness ==
    /\ pc[1] = "raised"
    /\ ops[1] # << >> /\ Last(ops[1]).op = "create_index" /\ Last(ops[1]).result # "ok"
    /\ \E n \in 1..Len(ops[1]) :
          ops[1][n].op = "create_collection" /\ ops[1][n].result = "ok"

\* C8: under every interleaving of two instances each seed collection holds
\* at most one copy of each of its canonical seed documents.
C8_SeededAtMostOnce ==
    \A c \in SeedSet : \A x \in Range(SeedDocs(c)) : docs[c][x] <= 1

\* C9: a run that has raised on a probe that failed with a connectivity
\* error had tried that probe max_retries times.
C9_TransientProbeRetried ==
    \A p \in Procs :
        (/\ pc[p] = "raised"
         /\ ops[p] # << >>
         /\ Last(ops[p]).op = "ping"
         /\ Last(ops[p]).result = "transient")
        => Cardinality(PingsOn(p, Last(ops[p]).client)) = max_retries

\* C10: a run constructs at most one client, and every call it issues goes
\* through the client its first probe was made on.
C10_OneHandle ==
    \A p \in Procs :
        /\ clients[p] <= 1
        /\ \A n \in 1..Len(ops[p]) : ops[p][n].client = 1

\* the database with no collection at all
EmptyDatabase == Database(0, {}, {})

\* the calls of run p that succeeded, by operation and collection
Succeeded(p, op, c) == {n \in CallsOf(p, op, c) : ops[p][n].result = "ok"}

\* C11: the first run against a database without collections, once it has
\* completed, has issued exactly one create_collection for each of the 6
\* declared collections, exactly one create_index for each declared index
\* (13 in all) and no other, and courses holds exactly the 3 canonical
\* courses, tax_rates the 2 rates, payment_locations the 1 location.
C11_EmptyDatabaseScenario ==
    (pre = EmptyDatabase /\ pc[1] = "done") =>
        /\ \A c \in DeclaredSet :
              /\ Cardinality(CallsOf(1, "create_collection", c)) = 1
              /\ Cardinality(CallsOf(1, "create_index", c)) = Len(Indexes(c))
              /\ \A d \in Range(Indexes(c)) :
                    Cardinality({n \in CallsOf(1, "create_index", c) :
                                    ops[1][n].key = d.key}) = 1
        /\ Cardinality({n \in 1..Len(ops[1]) : ops[1][n].op = "create_collection"}) = 6
        /\ Cardinality({n \in 1..Len(ops[1]) : ops[1][n].op = "create_index"}) = 13
        /\ MongoCount(docs["courses"]) = 3 /\ docs["courses"] = Canonical("courses")
        /\ MongoCount(docs["tax_rates"]) = 2 /\ docs["tax_rates"] = Canonical("tax_rates")
        /\ MongoCount(docs["payment_locations"]) = 1
        /\ docs["payment_locations"] = Canonical("payment_locations")

\* the first run has completed against a database that had no collections
C11_Witness ==
    /\ pre = EmptyDatabase
    /\ pc[1] = "done"
    /\ Len(ops[1]) > 13

\* the create_index calls of run p on collection c for the key tuple key
CreateIndexCalls(p, c, key) == {n \in CallsOf(p, "create_index", c) : ops[p][n].key = key}

\* one step leaves every collection, every live index (name, key tuple and
\* options) and every stored document in place
Grows ==
    /\ liveColls \subseteq liveColls'
    /\ \A c \in DeclaredSet : liveIdx[c] \subseteq liveIdx'[c]
    /\ \A c \in SeedSet : \A x \in DocIds(c) : docs[c][x] <= docs'[c][x]

\* a step that issues a create_collection or a create_index issues one the
\* run has not issued before, for that collection and key tuple
CreatesOnce ==
    \A p \in Procs :
        (ops'[p] # ops[p] /\ Last(ops'[p]).op \in {"create_collection", "create_index"})
            => \A n \in 1..Len(ops[p]) :
                  ~(/\ ops[p][n].op = Last(ops'[p]).op
                    /\ ops[p][n].coll = Last(ops'[p]).coll
                    /\ ops[p][n].key = Last(ops'[p]).key)

\* C12: every step only adds collections, live indexes and documents; none
\* that exists is dropped or altered, and a run issues at most one
\* create_collection per collection and one create_index per declared index.
C12_AddOnly == [][Grows /\ CreatesOnce]_vars

\* a collection that held a left-over index has gained an index beside it
C12_Witness ==
    \E c \in DeclaredSet :
        /\ pre.idx[c] # {}
        /\ pre.idx[c] \subseteq liveIdx[c]
        /\ liveIdx[c] # pre.idx[c]
        /\ \E p \in Procs : Succeeded(p, "create_index", c) # {}

\* the fields of a key tuple, order and directions dropped
Fields(key) == {key[n][1] : n \in 1..Len(key)}

\* C13: a live index is the declared index exactly when their ordered
\* (field, direction) tuples are equal, whatever its name: a sole live index
\* with the declared key tuple and the declared options gets no create_index
\* call from any run, and a live index on the same fields in another order
\* or direction does not stand for the declared one, which the run creates.
C13_IndexIdentity ==
    \A c \in DeclaredSet : \A i \in pre.idx[c] : \A d \in Range(Indexes(c)) :
        /\ (/\ i.key = d.key
            /\ i.opts = d.opts
            /\ \A j \in pre.idx[c] : j.key = d.key => j = i)
              => \A p \in Procs : CreateIndexCalls(p, c, d.key) = {}
        /\ (/\ i.key # d.key
            /\ Fields(i.key) = Fields(d.key)
            /\ \A j \in pre.idx[c] : j.key # d.key
            /\ pc[1] = "done")
              => Cardinality(CreateIndexCalls(1, c, d.key)) = 1

\* a run has completed over the declared index left under another name and
\* issued no create_index for its key
C13_Witness ==
    \E c \in DeclaredSet : \E i \in pre.idx[c] :
        /\ i.name.tag = "legacy"
        /\ \E d \in Range(Indexes(c)) : d.key = i.key /\ d.opts = i.opts
        /\ pc[1] = "done"
        /\ CreateIndexCalls(1, c, i.key) = {}

\* the place of a declared collection in collection_schemas
Position(c) == CHOOSE n \in 1..Len(Collections) : Collections[n] = c

\* C14: a run works through the declared collections in declaration order;
\* the create_collection of a collection comes before every create_index on
\* that collection, and every create_index is on a collection that exists.
\* (Stated of the latest call of each run against the calls before it: ops
\* only grows, so every call has been the latest one.)
C14_Ordering ==
    \A p \in Procs :
        (ops[p] # << >> /\ Last(ops[p]).coll \in DeclaredSet) =>
            LET call == Last(ops[p])
                earlier == 1..(Len(ops[p]) - 1)
            IN  /\ \A n \in earlier :
                      ops[p][n].coll \in DeclaredSet =>
                          Position(ops[p][n].coll) <= Position(call.coll)
                /\ call.op = "create_collection" =>
                      \A n \in earlier :
                          ~(ops[p][n].op = "create_index" /\ ops[p][n].coll = call.coll)
                /\ call.op = "create_index" => call.coll \in liveColls

\* a run has completed having created a collection and an index in it, and
\* an index in a collection it found
C14_Witness ==
    /\ pc[1] = "done"
    /\ \E c \in DeclaredSet :
          /\ Succeeded(1, "create_collection", c) # {}
          /\ Succeeded(1, "create_index", c) # {}
    /\ \E c \in pre.colls \cap DeclaredSet :
          /\ CallsOf(1, "create_collection", c) = {}
          /\ Succeeded(1, "create_index", c) # {}

\* the positions in ops[p] of the probes of the retry loop that succeeded
ProbesPassed(p) == {n \in PingsOn(p, 1) : ops[p][n].result = "ok"}

\* C15: a run whose probe has failed on every attempt of the retry loop has
\* raised and issued nothing but those probes; every other call of any run
\* (the probe of get_db, list_collection_names, create_collection,
\* index_information, create_index, count, find, insert) comes after a probe
\* of the retry loop that succeeded.
C15_NoReconciliationWithoutProbe ==
    \A p \in Procs :
        /\ \A n \in 1..Len(ops[p]) :
              (ops[p][n].op # "ping" \/ ops[p][n].client # 1)
                  => \E m \in 1..(n - 1) :
                        /\ ops[p][m].op = "ping"
                        /\ ops[p][m].client = 1
                        /\ ops[p][m].result = "ok"
        /\ (AllTransient(p) /\ Len(ops[p]) >= max_retries)
              => pc[p] = "raised" /\ Len(ops[p]) = max_retries

\* the first run went through to its end behind a probe that succeeded; the
\* second lost every probe, raised and left the database as it found it
C15_Witness ==
    /\ pc[1] = "done"
    /\ ProbesPassed(1) # {}
    /\ pc[2] = "raised"
    /\ AllTransient(2)
    /\ Len(ops[2]) = max_retries

\* the accessors that sort what they find: the collection each one queries
\* and the field it sorts on
Accessors ==
    { [name |-> "get_financial_health",  coll |-> "financial_health",  sort |-> "created_at"],
      [name |-> "get_budgets",           coll |-> "budgets",           sort |-> "created_at"],
      [name |-> "get_bills",             coll |-> "bills",             sort |-> "due_date"],
      [name |-> "get_net_worth",         coll |-> "net_worth",         sort |-> "created_at"],
      [name |-> "get_emergency_funds",   coll |-> "emergency_funds",   sort |-> "created_at"],
      [name |-> "get_quiz_results",      coll |-> "quiz_results",      sort |-> "created_at"],
      [name |-> "get_news_articles",     coll |-> "news_articles",     sort |-> "published_at"],
      [name |-> "get_tax_rates",         coll |-> "tax_rates",         sort |-> "min_income"],
      [name |-> "get_payment_locations", coll |-> "payment_locations", sort |-> "name"],
      [name |-> "get_tax_reminders",     coll |-> "tax_reminders",     sort |-> "due_date"] }

\* the live indexes of any collection: collection_schemas declares indexes
\* for the six collections of DeclaredSet only, and no other create_index
\* exists in the routine
LiveIndexesOf(c) == IF c \in DeclaredSet THEN liveIdx[c] ELSE {}

\* C16: once a run has completed, the collection of every sorting accessor
\* exists and has an index whose leading key is the accessor's sort field.
C16_SortIndexes ==
    (\E p \in Procs : pc[p] = "done") =>
        \A a \in Accessors :
            /\ a.coll \in liveColls
            /\ \E i \in LiveIndexesOf(a.coll) : i.key[1][1] = a.sort

\* C17: the create/skip decision a run takes for each declared index of the
\* collection it is on is the same under every order in which
\* index_information could have listed the live indexes it returned.
C17_PlanDeterminism ==
    \A p \in Procs :
        pc[p] = "index" =>
            \A other \in Enumerations(Range(existing_indexes[p])) :
                \A d \in Range(Indexes(Collections[ci[p]])) :
                    IndexExists(other, d.key, d.opts)
                        = IndexExists(existing_indexes[p], d.key, d.opts)

\* whom the blueprint is for
Allowed(user) == user.is_authenticated /\ (user.role = "personal" \/ user.admin)

C19_UnsubscribeEffect ==
    (/\ stage = "responded"
     /\ handled
     /\ request.endpoint = "emergency_fund.unsubscribe"
     /\ request.db_up)
    => \A d \in FundIds :
          LET was == funds_before[d]
              hit == /\ was.email = request.email
                     /\ current_user.is_authenticated => was.user_id = current_user.id
          IN  emergency_funds[d] =
                  IF hit THEN [was EXCEPT !.email_opt_in = FALSE] ELSE was

\* C20: of two instances started together on an empty database, the store
\* rejecting a second create_collection and taking an identical create_index
\* as done, not both raise; when both have terminated, every declared
\* collection exists and every declared index exists exactly once, with its
\* declared options, and nothing else is indexed.
C20_TwoInstanceConvergence ==
    /\ ~(\A p \in Procs : pc[p] = "raised")
    /\ (\A p \in Procs : pc[p] \in Terminated) =>
          \A c \in DeclaredSet :
              /\ c \in liveColls
              /\ Cardinality(liveIdx[c]) = Len(Indexes(c))
              /\ \A d \in Range(Indexes(c)) :
                    \E i \in liveIdx[c] :
                        /\ i.key = d.key
                        /\ i.opts = d.opts
                        /\ \A j \in liveIdx[c] : j.key = d.key => j = i

\* both instances have terminated: the second lost a create_collection to
\* the first and raised, the first went through
C20_Witness ==
    /\ pc[1] = "done"
    /\ pc[2] = "raised"
    /\ Last(ops[2]).op = "create_collection"
    /\ Last(ops[2]).result = "error"
    /\ Succeeded(1, "create_collection", Last(ops[2]).coll) # {}

\* C21: on a reconciled database, whatever create_user calls were made, no
\* two users documents have the same _id or the same lower-cased email; a
\* call whose derived _id or lower-cased email is that of a user already
\* there has raised ValueError and left the collection as it was.
C21_UserUniqueness ==
    /\ \A u, v \in users :
          (u._id = v._id \/ Lower(u.email) = Lower(v.email)) => u = v
    /\ (\E u \in users_before :
            \/ u._id = UserId(user_data)
            \/ Lower(u.email) = Lower(user_data.email))
          => raised = "ValueError" /\ users = users_before

\* a call with a new username and the email of an existing user, written in
\* another case, has raised ValueError
C21_Witness ==
    /\ raised = "ValueError"
    /\ users = users_before
    /\ user_data.email # Lower(user_data.email)
    /\ \E u \in users_before :
          u._id # UserId(user_data) /\ u.email = Lower(user_data.email)

\* the plan a create_plan submission has just stored
Stored == emergency_funds[Len(emergency_funds)]

PlanStored == stage = "records" /\ form # NoForm

HasBadge(record, badge) == \E n \in 1..Len(record.badges) : record.badges[n] = badge

====
